---- MODULE Spec2Model ----
(***************************************************************************)
(* Model of source/ota_task.c: the OTA bring-up task (ota_task), the       *)
(* Ethernet link bring-up with bounded retries (ethernet_connect) and the  *)
(* OTA agent's event callback (ota_callback).                              *)
(*                                                                         *)
(* The vendor services (storage, connection manager, secure sockets, OTA   *)
(* agent) are opaque: each call returns a result chosen from Rslts.        *)
(* CY_ASSERT(0) is taken with its contract, a halt of the whole process.   *)
(* The history variable `calls` records every vendor call the task makes   *)
(* and whether it succeeded; connect_first and connect_last record the     *)
(* codes returned by the first and the latest cy_ecm_connect call.         *)
(***************************************************************************)
EXTENDS Integers, Sequences, FiniteSets, TLC

\* ---------------------------------------------------------------- macros
MAX_CONNECTION_RETRIES == 10
ETHERNET_CONN_RETRY_DELAY_MS == 500

\* ---------------------------------------------------------------- bounds
\* longest file path / JSON text carried by an event record
MaxFileLen == 1
\* largest byte counter carried by a storage-write event
MaxBytes == 1

\* ------------------------------------------------------- result codes
CY_RSLT_SUCCESS == "CY_RSLT_SUCCESS"
CY_RSLT_TYPE_ERROR == "CY_RSLT_TYPE_ERROR"
\* two distinct failure codes a vendor call can hand back, besides the
\* generic CY_RSLT_TYPE_ERROR
ErrCodes == {"CY_RSLT_ERR_A", "CY_RSLT_ERR_B"}
Rslts == {CY_RSLT_SUCCESS} \cup ErrCodes

CY_OTA_CB_RSLT_OTA_CONTINUE == "CY_OTA_CB_RSLT_OTA_CONTINUE"
CY_OTA_CB_RSLT_OTA_STOP == "CY_OTA_CB_RSLT_OTA_STOP"

\* a pointer is a sequence of length 0 (null) or 1 (the pointee)
NULL == << >>
Ptr(x) == << x >>

VARIABLES
    test_revert,    \* build flag TEST_REVERT
    pc,             \* position of ota_task
    result,         \* ethernet_connect: local `result`
    conn_retries,   \* ethernet_connect: local `conn_retries` (uint8_t)
    ec_ret,         \* value returned by ethernet_connect, NULL before it returns
    calls,          \* history: << name, succeeded >> of every vendor call the
                    \* task made and of ethernet_connect when it returned
    connect_first,  \* history: code returned by the first cy_ecm_connect call
    connect_last,   \* history: code returned by the latest cy_ecm_connect call
    delay_ms,       \* history: total time spent in vTaskDelay
    halt_line,      \* source line of the CY_ASSERT that halted, 0 if none
    ota_context,    \* session handle written by cy_ota_agent_start
    agent_active,   \* the agent's own context exists and may call back
    ota_network_params, \* global: network parameters for OTA
    ota_agent_params,   \* global: parameters for the OTA agent
    ota_interfaces,     \* global: OTA storage interface callbacks
    cb_data,        \* ota_callback: argument of the latest invocation
    cb_result,      \* ota_callback: local `cb_result` of the latest invocation
    cb_trace,       \* ota_callback: lookups and prints of the latest invocation
    cb_status       \* "none" | "returned" | "fault" for the latest invocation

vars == << test_revert, pc, result, conn_retries, ec_ret, calls,
           connect_first, connect_last, delay_ms,
           halt_line, ota_context, agent_active,
           ota_network_params, ota_agent_params, ota_interfaces,
           cb_data, cb_result, cb_trace, cb_status >>

taskVars == << result, conn_retries, ec_ret, delay_ms >>
connHist == << connect_first, connect_last >>
cbVars == << cb_data, cb_result, cb_trace, cb_status >>
cfgVars == << ota_network_params, ota_agent_params, ota_interfaces >>

\* lines 92-124: the static initialiser of ota_network_params; the fields
\* hold the configuration macros of ota_app_config.h
NetworkParamsInit ==
    [ host_name |-> "HTTP_SERVER", port |-> "HTTP_SERVER_PORT",
      file |-> "OTA_HTTP_JOB_FILE", use_get_job_flow |-> "CY_OTA_JOB_FLOW",
      initial_connection |-> "CY_OTA_CONNECTION_HTTP(S)" ]

\* lines 127-134: the static initialiser of ota_agent_params
AgentParamsInit ==
    [ cb_func |-> "ota_callback", cb_arg |-> "&ota_context",
      reboot_upon_completion |-> 1, validate_after_reboot |-> 1,
      do_not_send_result |-> 1 ]

\* lines 137-146: the static initialiser of ota_interfaces
InterfacesInit ==
    [ ota_file_open |-> "cy_ota_storage_open",
      ota_file_read |-> "cy_ota_storage_read",
      ota_file_write |-> "cy_ota_storage_write",
      ota_file_close |-> "cy_ota_storage_close",
      ota_file_verify |-> "cy_ota_storage_verify",
      ota_file_validate |-> "cy_ota_storage_image_validate",
      ota_file_get_app_info |-> "cy_ota_storage_get_app_info" ]

\* the process executes instructions: not halted by an assert, not faulted
Running == pc /= "halted" /\ cb_status /= "fault"

Init ==
    /\ test_revert \in BOOLEAN
    /\ pc = "storage_init"
    /\ result = CY_RSLT_TYPE_ERROR
    /\ conn_retries = 0
    /\ ec_ret = NULL
    /\ calls = << >>
    /\ connect_first = NULL
    /\ connect_last = NULL
    /\ delay_ms = 0
    /\ halt_line = 0
    /\ ota_context = NULL
    /\ agent_active = FALSE
    /\ ota_network_params = NetworkParamsInit
    /\ ota_agent_params = AgentParamsInit
    /\ ota_interfaces = InterfacesInit
    /\ cb_data = NULL
    /\ cb_result = CY_OTA_CB_RSLT_OTA_CONTINUE
    /\ cb_trace = << >>
    /\ cb_status = "none"

\* ------------------------------------------------------------ ota_task

\* CY_ASSERT(0): the process halts at the given source line
CY_ASSERT_0(line) ==
    /\ pc' = "halted"
    /\ halt_line' = line

\* the history c extended by a call that returned r
Log(c, name, r) == Append(c, << name, r = CY_RSLT_SUCCESS >>)

\* a vendor call made by the task returned r
Called(name, r) == calls' = Log(calls, name, r)

\* variant: the test never fires, a failed step is not noticed
FailedNever(r) == FALSE

\* variant: the test is inverted
FailedInverted(r) == CY_RSLT_SUCCESS = r

\* the test `CY_RSLT_SUCCESS != result` guarding each CY_ASSERT (lines 164,
\* 172, 180, 187, 194, 247, 256)
Failed(r) == CY_RSLT_SUCCESS /= r

\* variant: once an attempt has failed, `result` is not overwritten again
ConnectAssignKeepFirst(old, r) == IF old = CY_RSLT_SUCCESS THEN r ELSE old

\* line 266: `result = cy_ecm_connect(...)`, the value kept in `result`
\* when the previous value was old and the call returned r
ConnectAssign(old, r) == r

\* variant: the early return is missing, the loop always runs on
ConnectSucceededNever(r) == FALSE

\* line 268: `if (CY_RSLT_SUCCESS == result)`, the early return
ConnectSucceeded(r) == CY_RSLT_SUCCESS = r

\* variant: the loop bound is off by one, an eleventh attempt is made
LoopCondInclusive(n) == n <= MAX_CONNECTION_RETRIES

\* line 263: the loop condition
LoopCond(n) == n < MAX_CONNECTION_RETRIES

\* line 263: conn_retries++ on a uint8_t
Incr8(n) == (n + 1) % 256

\* lines 164-168
StorageInit ==
    /\ Running /\ pc = "storage_init"
    /\ \E r \in Rslts :
        /\ Called("cy_ota_storage_init", r)
        /\ IF Failed(r)
             THEN CY_ASSERT_0(167)
             ELSE /\ pc' = IF test_revert THEN "ethernet_connect"
                                          ELSE "image_validate"
                  /\ UNCHANGED halt_line
    /\ UNCHANGED << test_revert, cfgVars, connHist, taskVars, ota_context, agent_active, cbVars >>

\* lines 170-177
ImageValidate ==
    /\ Running /\ pc = "image_validate"
    /\ \E r \in Rslts :
        /\ Called("cy_ota_storage_image_validate", r)
        /\ IF Failed(r)
             THEN CY_ASSERT_0(175)
             ELSE pc' = "ethernet_connect" /\ UNCHANGED halt_line
    /\ UNCHANGED << test_revert, cfgVars, connHist, taskVars, ota_context, agent_active, cbVars >>

\* -------------------------------------------------------- ethernet_connect

\* lines 180, 230-242: the call of ethernet_connect and its initialisers
EthernetConnectEntry ==
    /\ Running /\ pc = "ethernet_connect"
    /\ result' = CY_RSLT_TYPE_ERROR
    /\ conn_retries' = 0
    /\ pc' = "ecm_init"
    /\ UNCHANGED << test_revert, cfgVars, connHist, ec_ret, calls, delay_ms, halt_line,
                    ota_context, agent_active, cbVars >>

\* lines 245-251
EcmInit ==
    /\ Running /\ pc = "ecm_init"
    /\ \E r \in Rslts :
        /\ Called("cy_ecm_init", r)
        /\ result' = r
        /\ IF Failed(r)
             THEN CY_ASSERT_0(250)
             ELSE pc' = "ethif_init" /\ UNCHANGED halt_line
    /\ UNCHANGED << test_revert, cfgVars, connHist, conn_retries, ec_ret, delay_ms,
                    ota_context, agent_active, cbVars >>

\* variant: a failed interface init is tried again instead of halting
EthifInitRetry ==
    /\ Running /\ pc = "ethif_init"
    /\ \E r \in Rslts :
        /\ Called("cy_ecm_ethif_init", r)
        /\ result' = r
        /\ pc' = IF Failed(r) THEN "ethif_init" ELSE "loop_test"
        /\ conn_retries' = 0
    /\ UNCHANGED << test_revert, cfgVars, connHist, ec_ret, delay_ms, halt_line,
                    ota_context, agent_active, cbVars >>

\* lines 253-263: interface init, then the loop initialiser
EthifInit ==
    /\ Running /\ pc = "ethif_init"
    /\ \E r \in Rslts :
        /\ Called("cy_ecm_ethif_init", r)
        /\ result' = r
        /\ IF Failed(r)
             THEN CY_ASSERT_0(259) /\ UNCHANGED conn_retries
             ELSE /\ pc' = "loop_test"
                  /\ conn_retries' = 0
                  /\ UNCHANGED halt_line
    /\ UNCHANGED << test_revert, cfgVars, connHist, ec_ret, delay_ms,
                    ota_context, agent_active, cbVars >>

\* line 263: conn_retries < MAX_CONNECTION_RETRIES
LoopTest ==
    /\ Running /\ pc = "loop_test"
    /\ pc' = IF LoopCond(conn_retries) THEN "connect" ELSE "exhausted"
    /\ UNCHANGED << test_revert, cfgVars, connHist, taskVars, calls, halt_line,
                    ota_context, agent_active, cbVars >>

\* lines 265-274: one connection attempt; success returns at once
Connect ==
    /\ Running /\ pc = "connect"
    /\ \E r \in Rslts :
        /\ connect_first' = IF connect_first = NULL THEN Ptr(r)
                                                    ELSE connect_first
        /\ connect_last' = Ptr(r)
        /\ result' = ConnectAssign(result, r)
        /\ IF ConnectSucceeded(result')
             THEN /\ pc' = "ec_returned"
                  /\ ec_ret' = Ptr(result')
                  /\ calls' = Log(Log(calls, "cy_ecm_connect", r),
                                  "ethernet_connect", result')
             ELSE /\ pc' = "delay"
                  /\ Called("cy_ecm_connect", r)
                  /\ UNCHANGED ec_ret
    /\ UNCHANGED << test_revert, cfgVars, conn_retries, delay_ms, halt_line,
                    ota_context, agent_active, cbVars >>

\* lines 276-278 and the loop increment of line 263
RetryDelay ==
    /\ Running /\ pc = "delay"
    /\ delay_ms' = delay_ms + ETHERNET_CONN_RETRY_DELAY_MS
    /\ conn_retries' = Incr8(conn_retries)
    /\ pc' = "loop_test"
    /\ UNCHANGED << test_revert, cfgVars, connHist, result, ec_ret, calls, halt_line,
                    ota_context, agent_active, cbVars >>

\* lines 281-283: retries exhausted, the last result is returned
Exhausted ==
    /\ Running /\ pc = "exhausted"
    /\ ec_ret' = Ptr(result)
    /\ Called("ethernet_connect", result)
    /\ pc' = "ec_returned"
    /\ UNCHANGED << test_revert, cfgVars, connHist, result, conn_retries, delay_ms,
                    halt_line, ota_context, agent_active, cbVars >>

\* ------------------------------------------------- ota_task, continued

\* variant: the caller ignores the value ethernet_connect returned
ConnectCheckIgnored ==
    /\ Running /\ pc = "ec_returned"
    /\ pc' = "network_init"
    /\ UNCHANGED << test_revert, cfgVars, connHist, taskVars, calls, halt_line,
                    ota_context, agent_active, cbVars >>

\* lines 180-184: the caller's test of ethernet_connect's return value
ConnectCheck ==
    /\ Running /\ pc = "ec_returned"
    /\ IF Failed(ec_ret[1])
         THEN CY_ASSERT_0(183)
         ELSE pc' = "network_init" /\ UNCHANGED halt_line
    /\ UNCHANGED << test_revert, cfgVars, connHist, taskVars, calls,
                    ota_context, agent_active, cbVars >>

\* variant: the result of the secure-sockets init is not tested
NetworkInitUnchecked ==
    /\ Running /\ pc = "network_init"
    /\ \E r \in Rslts :
        /\ Called("cy_awsport_network_init", r)
        /\ pc' = "agent_start"
    /\ UNCHANGED << test_revert, cfgVars, connHist, taskVars, halt_line,
                    ota_context, agent_active, cbVars >>

\* lines 187-191
NetworkInit ==
    /\ Running /\ pc = "network_init"
    /\ \E r \in Rslts :
        /\ Called("cy_awsport_network_init", r)
        /\ IF Failed(r)
             THEN CY_ASSERT_0(190)
             ELSE pc' = "agent_start" /\ UNCHANGED halt_line
    /\ UNCHANGED << test_revert, cfgVars, connHist, taskVars, ota_context, agent_active, cbVars >>

\* line 194: cy_ota_agent_start is entered; from here on the agent's own
\* context may exist and call ota_callback (ota_agent_params.cb_func)
AgentStartCall ==
    /\ Running /\ pc = "agent_start"
    /\ agent_active' = TRUE
    /\ pc' = "agent_start_ret"
    /\ UNCHANGED << test_revert, cfgVars, connHist, taskVars, calls, halt_line,
                    ota_context, cbVars >>

\* lines 194-198: cy_ota_agent_start returns; on success the handle is stored
AgentStartReturn ==
    /\ Running /\ pc = "agent_start_ret"
    /\ \E r \in Rslts :
        /\ Called("cy_ota_agent_start", r)
        /\ IF Failed(r)
             THEN CY_ASSERT_0(197) /\ UNCHANGED ota_context
             ELSE /\ ota_context' = Ptr("ota_agent_handle")
                  /\ pc' = "suspend"
                  /\ UNCHANGED halt_line
    /\ UNCHANGED << test_revert, cfgVars, connHist, taskVars, agent_active, cbVars >>

\* variant: the task stops the agent and drops the handle before parking
SuspendReleasing ==
    /\ Running /\ pc = "suspend"
    /\ pc' = "suspended"
    /\ ota_context' = NULL
    /\ agent_active' = FALSE
    /\ UNCHANGED << test_revert, cfgVars, connHist, taskVars, calls, halt_line,
                    cbVars >>

\* variant: vTaskSuspend is missing and the task function returns
SuspendReturns ==
    /\ Running /\ pc = "suspend"
    /\ pc' = "returned"
    /\ UNCHANGED << test_revert, cfgVars, connHist, taskVars, calls, halt_line,
                    ota_context, agent_active, cbVars >>

\* line 200: vTaskSuspend(NULL), the task parks itself for good
Suspend ==
    /\ Running /\ pc = "suspend"
    /\ pc' = "suspended"
    /\ UNCHANGED << test_revert, cfgVars, connHist, taskVars, calls, halt_line,
                    ota_context, agent_active, cbVars >>

\* --------------------------------------------------------- event records

\* cy_ota_cb_reasons_t as switched on at lines 317-334, and a value outside
\* the enumeration
Reasons == { "CY_OTA_LAST_REASON", "CY_OTA_REASON_SUCCESS",
             "CY_OTA_REASON_FAILURE", "CY_OTA_REASON_STATE_CHANGE",
             "REASON_OUT_OF_RANGE" }

\* cy_ota_agent_state_t as switched on at lines 337-467, and a value outside
\* the enumeration
States == { "CY_OTA_STATE_NOT_INITIALIZED", "CY_OTA_STATE_EXITING",
            "CY_OTA_STATE_INITIALIZING", "CY_OTA_STATE_AGENT_STARTED",
            "CY_OTA_STATE_AGENT_WAITING", "CY_OTA_STATE_START_UPDATE",
            "CY_OTA_STATE_JOB_CONNECT", "CY_OTA_STATE_JOB_DOWNLOAD",
            "CY_OTA_STATE_JOB_DISCONNECT", "CY_OTA_STATE_JOB_PARSE",
            "CY_OTA_STATE_JOB_REDIRECT", "CY_OTA_STATE_DATA_CONNECT",
            "CY_OTA_STATE_DATA_DOWNLOAD", "CY_OTA_STATE_DATA_DISCONNECT",
            "CY_OTA_STATE_RESULT_CONNECT", "CY_OTA_STATE_RESULT_SEND",
            "CY_OTA_STATE_RESULT_RESPONSE", "CY_OTA_STATE_RESULT_DISCONNECT",
            "CY_OTA_STATE_OTA_COMPLETE", "CY_OTA_STATE_STORAGE_OPEN",
            "CY_OTA_STATE_STORAGE_WRITE", "CY_OTA_STATE_STORAGE_CLOSE",
            "CY_OTA_STATE_VERIFY", "CY_OTA_STATE_RESULT_REDIRECT",
            "CY_OTA_NUM_STATES", "STATE_OUT_OF_RANGE" }

\* character strings of length 0..MaxFileLen (file and json_doc are char
\* arrays inside the record, so they are never null, but may be empty)
Chars == { "/", "j" }
Texts == UNION { [1..n -> Chars] : n \in 0..MaxFileLen }

\* broker_server.host_name is a pointer: null or a host name
Hosts == { NULL, Ptr("update.example.com") }
\* broker_server.port
Ports == { 0, 443 }
\* percentage, inside and outside 0..100
Percentages == { 0, 100, 101 }
\* bytes_written and total_size; bytes_written may exceed total_size
ByteCounts == 0..MaxBytes

\* an event record with a valid connection target and zeroed counters
BaseEvent(r, s) ==
    [ reason |-> r, ota_agt_state |-> s,
      broker_host_name |-> Ptr("update.example.com"), port |-> 443,
      file |-> << "/" >>, json_doc |-> << >>,
      percentage |-> 0, bytes_written |-> 0, total_size |-> 0 ]

\* the event records the agent hands to the callback
Events ==
    \* every state under a state change
    { BaseEvent("CY_OTA_REASON_STATE_CHANGE", s) : s \in States }
    \cup
    \* the other reasons, in a few states
    { BaseEvent(r, s) : r \in Reasons,
         s \in { "CY_OTA_STATE_JOB_CONNECT", "CY_OTA_STATE_STORAGE_WRITE",
                 "STATE_OUT_OF_RANGE" } }
    \cup
    \* job connect: every combination of host, port and file
    { [ BaseEvent("CY_OTA_REASON_STATE_CHANGE", "CY_OTA_STATE_JOB_CONNECT")
          EXCEPT !.broker_host_name = h, !.port = p, !.file = f ] :
         h \in Hosts, p \in Ports, f \in Texts }
    \cup
    \* an unusable connection target under the other reasons and states
    { [ BaseEvent(r, s)
          EXCEPT !.broker_host_name = NULL, !.port = 0, !.file = << >> ] :
         r \in Reasons,
         s \in { "CY_OTA_STATE_JOB_CONNECT", "CY_OTA_STATE_DATA_CONNECT",
                 "CY_OTA_STATE_RESULT_CONNECT", "STATE_OUT_OF_RANGE" } }
    \cup
    \* job parse: every JSON text
    { [ BaseEvent("CY_OTA_REASON_STATE_CHANGE", "CY_OTA_STATE_JOB_PARSE")
          EXCEPT !.json_doc = j ] : j \in Texts }
    \cup
    \* storage write: every combination of the progress counters
    { [ BaseEvent("CY_OTA_REASON_STATE_CHANGE", "CY_OTA_STATE_STORAGE_WRITE")
          EXCEPT !.percentage = pct, !.bytes_written = bw, !.total_size = ts ] :
         pct \in Percentages, bw \in ByteCounts, ts \in ByteCounts }

\* ------------------------------------------------------------ ota_callback

\* strlen of a character string
strlen(str) == Len(str)

\* one entry of the callback's trace: a lookup or a printf, by source line
Op(name, line) == [ op |-> name, line |-> line ]
Printf(line) == Op("printf", line)

\* variant: the port test of line 354 is missing
JobConnectInvalidNoPort(cb) ==
    \/ cb.broker_host_name = NULL
    \/ strlen(cb.file) = 0

\* lines 353-355: the validation of the job-connect target.  The || chain
\* short-circuits: a null host is never followed by the other two tests.
JobConnectInvalid(cb) ==
    \/ cb.broker_host_name = NULL
    \/ cb.port = 0
    \/ strlen(cb.file) = 0

\* lines 349-366: the printfs of the job-connect case.  The error line is
\* inside the `if`; the target line of line 363 follows the `if` block and
\* is not in an `else`.
JobConnectPrints(cb) ==
    << Printf(349) >>
      \o (IF JobConnectInvalid(cb) THEN << Printf(357) >> ELSE << >>)
      \o << Printf(363) >>

\* variant: an out-of-range percentage suppresses the progress line
StorageWritePrintsInRange(cb) ==
    IF cb.percentage > 100 \/ cb.bytes_written > cb.total_size
      THEN << Printf(452) >>
      ELSE << Printf(446), Printf(452) >>

\* lines 445-453: the printfs of the storage-write case; the counters are
\* only formatted (%ld), never tested
StorageWritePrints(cb) == << Printf(446), Printf(452) >>

\* lines 335-469: the printfs of the inner switch, per state; a state with
\* no case label (the switch has no default) prints nothing
StateChangePrints(cb) ==
    LET st == cb.ota_agt_state IN
    CASE st \in { "CY_OTA_STATE_NOT_INITIALIZED", "CY_OTA_STATE_EXITING",
                  "CY_OTA_STATE_INITIALIZING", "CY_OTA_STATE_AGENT_STARTED",
                  "CY_OTA_STATE_AGENT_WAITING" } -> << >>
      [] st = "CY_OTA_STATE_START_UPDATE" -> << Printf(345) >>
      [] st = "CY_OTA_STATE_JOB_CONNECT" -> JobConnectPrints(cb)
      [] st = "CY_OTA_STATE_JOB_DOWNLOAD" -> << Printf(371), Printf(375) >>
      [] st = "CY_OTA_STATE_JOB_DISCONNECT" -> << Printf(379) >>
      [] st = "CY_OTA_STATE_JOB_PARSE" -> << Printf(383) >>
      [] st = "CY_OTA_STATE_JOB_REDIRECT" -> << Printf(389) >>
      [] st = "CY_OTA_STATE_DATA_CONNECT" -> << Printf(393), Printf(394) >>
      [] st = "CY_OTA_STATE_DATA_DOWNLOAD" ->
            << Printf(399), Printf(403), Printf(404) >>
      [] st = "CY_OTA_STATE_DATA_DISCONNECT" -> << Printf(408) >>
      [] st = "CY_OTA_STATE_RESULT_CONNECT" -> << Printf(412), Printf(416) >>
      [] st = "CY_OTA_STATE_RESULT_SEND" -> << Printf(422), Printf(426) >>
      [] st = "CY_OTA_STATE_RESULT_RESPONSE" -> << Printf(430) >>
      [] st = "CY_OTA_STATE_RESULT_DISCONNECT" -> << Printf(434) >>
      [] st = "CY_OTA_STATE_OTA_COMPLETE" -> << Printf(438) >>
      [] st = "CY_OTA_STATE_STORAGE_OPEN" -> << Printf(442) >>
      [] st = "CY_OTA_STATE_STORAGE_WRITE" -> StorageWritePrints(cb)
      [] st = "CY_OTA_STATE_STORAGE_CLOSE" -> << Printf(456) >>
      [] st = "CY_OTA_STATE_VERIFY" -> << Printf(460) >>
      [] st = "CY_OTA_STATE_RESULT_REDIRECT" -> << Printf(464) >>
      [] OTHER -> << >>

\* variant: a state without a case label also requests a stop
StateChangeStopOnUnknown(cb) ==
    \/ cb.ota_agt_state = "CY_OTA_STATE_JOB_CONNECT" /\ JobConnectInvalid(cb)
    \/ cb.ota_agt_state = "STATE_OUT_OF_RANGE"

\* variant: the callback looks at the bring-up task and refuses every
\* state change until the task has parked itself
StateChangeStopUntilSuspended(cb) ==
    \/ cb.ota_agt_state = "CY_OTA_STATE_JOB_CONNECT" /\ JobConnectInvalid(cb)
    \/ pc /= "suspended"

\* line 361: the one place where cb_result is assigned after line 303
StateChangeStop(cb) ==
    /\ cb.ota_agt_state = "CY_OTA_STATE_JOB_CONNECT"
    /\ JobConnectInvalid(cb)

\* lines 363, 394, 416: broker_server.host_name is handed to a %s
\* conversion; with a null pointer that is undefined behaviour
HostFormattedAsString(cb) ==
    cb.ota_agt_state \in { "CY_OTA_STATE_JOB_CONNECT",
                           "CY_OTA_STATE_DATA_CONNECT",
                           "CY_OTA_STATE_RESULT_CONNECT" }

\* lines 317-471: the outer switch on the reason; a reason with no case
\* label falls through the switch
ReasonPrints(cb) ==
    CASE cb.reason = "CY_OTA_LAST_REASON" -> << >>
      [] cb.reason = "CY_OTA_REASON_SUCCESS" -> << Printf(324) >>
      [] cb.reason = "CY_OTA_REASON_FAILURE" -> << Printf(330) >>
      [] cb.reason = "CY_OTA_REASON_STATE_CHANGE" -> StateChangePrints(cb)
      [] OTHER -> << >>

\* lines 312-315: the two string lookups and the heap print
Lookups ==
    << Op("cy_ota_get_state_string", 312), Op("cy_ota_get_last_error", 313),
       Op("cy_ota_get_error_string", 313), Op("print_heap_usage", 315) >>

\* variant: the null test comes after the lookups of lines 312-315
NullGuardAfterLookups ==
    [ cb_result |-> CY_OTA_CB_RSLT_OTA_STOP, trace |-> Lookups,
      status |-> "returned" ]

\* lines 307-310: the outcome for a null event record
NullGuard ==
    [ cb_result |-> CY_OTA_CB_RSLT_OTA_STOP, trace |-> << >>,
      status |-> "returned" ]

\* lines 301-474: the outcomes of one invocation.  Handing a null host name
\* to %s is undefined: the print may go through ("(null)" or whatever sits
\* at address 0) and the callback returns, or the read faults.
ota_callback(cb_ptr) ==
    IF cb_ptr = NULL
      THEN { NullGuard }
      ELSE
        LET cb == cb_ptr[1]
            sc == cb.reason = "CY_OTA_REASON_STATE_CHANGE"
            res == IF sc /\ StateChangeStop(cb)
                     THEN CY_OTA_CB_RSLT_OTA_STOP
                     ELSE CY_OTA_CB_RSLT_OTA_CONTINUE
            tr == Lookups \o ReasonPrints(cb)
            ub == sc /\ HostFormattedAsString(cb)
                     /\ cb.broker_host_name = NULL
        IN  { [ cb_result |-> res, trace |-> tr, status |-> st ] :
                st \in IF ub THEN { "returned", "fault" }
                             ELSE { "returned" } }

\* the agent, in its own context, invokes ota_agent_params.cb_func
OtaCallback ==
    /\ Running /\ agent_active
    /\ \E cb_ptr \in { NULL } \cup { Ptr(e) : e \in Events } :
         \E out \in ota_callback(cb_ptr) :
            /\ cb_data' = cb_ptr
            /\ cb_result' = out.cb_result
            /\ cb_trace' = out.trace
            /\ cb_status' = out.status
    /\ UNCHANGED << test_revert, cfgVars, connHist, pc, taskVars, calls, halt_line,
                    ota_context, agent_active >>

\* ------------------------------------------------------- specification

TaskNext ==
    \/ StorageInit
    \/ ImageValidate
    \/ EthernetConnectEntry
    \/ EcmInit
    \/ EthifInit
    \/ LoopTest
    \/ Connect
    \/ RetryDelay
    \/ Exhausted
    \/ ConnectCheck
    \/ NetworkInit
    \/ AgentStartCall
    \/ AgentStartReturn
    \/ Suspend

Next == TaskNext \/ OtaCallback

Spec == Init /\ [][Next]_vars

\* the RTOS scheduler lets the bring-up task run whenever it is runnable
FairSpec == Spec /\ WF_vars(TaskNext)

\* ============================================================== claims

\* the cy_ecm_connect calls made so far, in order
ConnectCalls == SelectSeq(calls, LAMBDA c : c[1] = "cy_ecm_connect")

\* how often the named call was made so far
Count(name) == Len(SelectSeq(calls, LAMBDA c : c[1] = name))

\* ethernet_connect is still inside its retry loop
InRetryLoop == pc \in { "loop_test", "connect", "delay", "exhausted" }

\* C1: in ethernet_connect, when the first k connect calls fail (k in 0..9)
\* and call k+1 succeeds, the function returns CY_RSLT_SUCCESS and has made
\* exactly k+1 connect calls: a successful call is always the last connect
\* call, in every later state, and the function has returned success by then.
C1_StopsAtFirstSuccess ==
    \A i \in 1..Len(ConnectCalls) :
        ConnectCalls[i][2] =>
            /\ i = Len(ConnectCalls)
            /\ i \in 1..MAX_CONNECTION_RETRIES
            /\ \A j \in 1..(i - 1) : ~ConnectCalls[j][2]
            /\ ~InRetryLoop
            /\ ec_ret = Ptr(CY_RSLT_SUCCESS)

\* C1 witness: nine failed attempts, the tenth succeeded, the task went on
C1_Witness ==
    /\ Len(ConnectCalls) = MAX_CONNECTION_RETRIES
    /\ ConnectCalls[MAX_CONNECTION_RETRIES][2]
    /\ ec_ret = Ptr(CY_RSLT_SUCCESS)
    /\ pc = "suspended"

\* all MAX_CONNECTION_RETRIES attempts were made and each one failed
AllAttemptsFailed ==
    /\ Len(ConnectCalls) = MAX_CONNECTION_RETRIES
    /\ \A i \in 1..Len(ConnectCalls) : ~ConnectCalls[i][2]

\* C2: when all 10 connect calls fail, ethernet_connect returns instead of
\* halting inside itself, and the value it returns is the code of the 10th
\* (last) attempt: not CY_RSLT_TYPE_ERROR, not the code of an earlier attempt.
C2_ReturnsLastError ==
    /\ [](AllAttemptsFailed =>
            /\ halt_line \notin { 250, 259 }
            /\ ~InRetryLoop =>
                 /\ ec_ret /= NULL
                 /\ ec_ret = connect_last
                 /\ ec_ret[1] \in ErrCodes
                 /\ ec_ret[1] /= CY_RSLT_TYPE_ERROR)
    /\ (AllAttemptsFailed ~> ec_ret /= NULL)

\* C2 witness: ten failures, the first and the last code differ, returned
C2_Witness ==
    /\ AllAttemptsFailed
    /\ ec_ret /= NULL
    /\ connect_first /= connect_last
    /\ ec_ret = connect_last

\* the latest callback invocation, if there was one, got a non-null record
CbInvoked == cb_status /= "none"
CbHasRecord == CbInvoked /\ cb_data /= NULL

\* the record e is a state change into the given state
IsStateChange(e, st) ==
    e.reason = "CY_OTA_REASON_STATE_CHANGE" /\ e.ota_agt_state = st

\* the record e is a job-connect state change whose host name is absent,
\* whose port is zero or whose file path is empty
BadJobConnect(e) ==
    /\ IsStateChange(e, "CY_OTA_STATE_JOB_CONNECT")
    /\ (e.broker_host_name = << >> \/ e.port = 0 \/ Len(e.file) = 0)

\* C3 as stated: for every invocation of ota_callback the result is STOP if
\* and only if the event is a job-connect state change with an absent host,
\* a zero port or an empty file path; every other path returns CONTINUE.
C3_StopIffBadJobConnect ==
    cb_status = "returned" =>
        /\ cb_result \in { CY_OTA_CB_RSLT_OTA_STOP, CY_OTA_CB_RSLT_OTA_CONTINUE }
        /\ cb_result = CY_OTA_CB_RSLT_OTA_STOP
             <=> (cb_data /= NULL /\ BadJobConnect(cb_data[1]))

\* C3 as amended: for every invocation with a non-null event record the
\* result is STOP if and only if the event is a job-connect state change
\* with an absent host, a zero port or an empty file path, and CONTINUE
\* otherwise; the one other path with STOP is the null-record guard.
C3_StopIffNullOrBadJobConnect ==
    CbInvoked =>
        /\ cb_result \in { CY_OTA_CB_RSLT_OTA_STOP, CY_OTA_CB_RSLT_OTA_CONTINUE }
        /\ cb_result = CY_OTA_CB_RSLT_OTA_STOP
             <=> (cb_data = NULL \/ BadJobConnect(cb_data[1]))

\* C3 witness: a job-connect state change with a host, a file and port 0
\* returned STOP
C3_Witness ==
    /\ cb_status = "returned"
    /\ cb_data /= NULL
    /\ IsStateChange(cb_data[1], "CY_OTA_STATE_JOB_CONNECT")
    /\ cb_data[1].broker_host_name /= NULL
    /\ cb_data[1].port = 0
    /\ cb_data[1].file /= << >>
    /\ cb_result = CY_OTA_CB_RSLT_OTA_STOP

\* C4: a null event record always yields STOP, and the callback returns
\* before any string lookup, heap-usage print or field access is made.
C4_NullRecordStops ==
    (CbInvoked /\ cb_data = NULL) =>
        /\ cb_status = "returned"
        /\ cb_result = CY_OTA_CB_RSLT_OTA_STOP
        /\ cb_trace = << >>

\* C4 witness: the callback was invoked with a null record and returned
C4_Witness ==
    /\ cb_status = "returned"
    /\ cb_data = NULL
    /\ cb_result = CY_OTA_CB_RSLT_OTA_STOP

\* the trace consists of the lookups of lines 312-315 followed by printfs
PrintOnly(tr) ==
    /\ Len(tr) >= 4
    /\ SubSeq(tr, 1, 4) = << Op("cy_ota_get_state_string", 312),
                             Op("cy_ota_get_last_error", 313),
                             Op("cy_ota_get_error_string", 313),
                             Op("print_heap_usage", 315) >>
    /\ \A i \in 5..Len(tr) : tr[i].op = "printf"

StepOrder ==
    << "cy_ota_storage_init" >>
      \o (IF test_revert THEN << >>
                         ELSE << "cy_ota_storage_image_validate" >>)
      \o << "ethernet_connect", "cy_awsport_network_init",
            "cy_ota_agent_start" >>

StepNames == { StepOrder[i] : i \in 1..Len(StepOrder) }

\* the calls ethernet_connect makes
LinkCalls == { "cy_ecm_init", "cy_ecm_ethif_init", "cy_ecm_connect" }

\* the place of a call in the sequence of steps; a call made inside
\* ethernet_connect has the place of ethernet_connect, a call that is not
\* part of this build has place 0
StepIndex(name) ==
    LET n == IF name \in LinkCalls THEN "ethernet_connect" ELSE name
    IN  IF n \in StepNames
          THEN CHOOSE i \in 1..Len(StepOrder) : StepOrder[i] = n
          ELSE 0

\* the step recorded at position i of the history failed: a top-level step
\* or one of the two initialisation calls of link bring-up returned an error
\* (a single failed connect attempt is not yet a failed step)
StepFailedAt(i) == calls[i][1] /= "cy_ecm_connect" /\ ~calls[i][2]

\* C6: ota_task invokes its steps only in the order storage init, image
\* validation (unless TEST_REVERT), ethernet_connect, network init, agent
\* start; a step is invoked only if every earlier step returned success;
\* the first failing step halts the process and no later step is invoked.
C6_StepsInOrderHaltOnFirstFailure ==
    /\ \A i \in 1..Len(calls) : StepIndex(calls[i][1]) >= 1
    /\ \A i, j \in 1..Len(calls) :
          i < j =>
            /\ StepIndex(calls[i][1]) <= StepIndex(calls[j][1])
            /\ StepIndex(calls[i][1]) = StepIndex(calls[j][1])
                 => calls[i][1] \in LinkCalls
    /\ \A j \in 1..Len(calls) :
          \A k \in 1..(StepIndex(calls[j][1]) - 1) :
              \E i \in 1..(j - 1) : calls[i] = << StepOrder[k], TRUE >>
    /\ \A i \in 1..Len(calls) :
          StepFailedAt(i) =>
            /\ i = Len(calls)
            /\ \/ pc = "halted"
               \/ calls[i][1] = "ethernet_connect" /\ pc = "ec_returned"
    /\ pc = "halted" => (halt_line /= 0 /\ StepFailedAt(Len(calls)))

\* C6 witness: everything up to link bring-up succeeded, network init
\* failed, the process halted and the agent was never started
C6_Witness ==
    /\ pc = "halted"
    /\ halt_line = 190
    /\ calls[Len(calls)] = << "cy_awsport_network_init", FALSE >>
    /\ Count("cy_ota_agent_start") = 0

\* every step recorded so far succeeded (single connect attempts aside)
StepsOk == \A i \in 1..Len(calls) : ~StepFailedAt(i)

\* every setup step was made and succeeded
AllStepsSucceeded ==
    /\ StepsOk
    /\ \A k \in 1..Len(StepOrder) :
          \E i \in 1..Len(calls) : calls[i] = << StepOrder[k], TRUE >>

\* C7: when every setup step succeeds, ota_task is at vTaskSuspend(NULL),
\* stays suspended once suspended, and has passed through no halt.
C7_AllOkSuspends ==
    /\ [](StepsOk => (pc /= "halted" /\ halt_line = 0))
    /\ [](AllStepsSucceeded => pc \in { "suspend", "suspended" })
    /\ [](pc \in { "suspend", "suspended" } => AllStepsSucceeded)
    /\ [][pc = "suspended" => pc' = "suspended"]_vars

\* C7 witness: all steps succeeded and the task is suspended
C7_Witness ==
    /\ AllStepsSucceeded
    /\ pc = "suspended"
    /\ halt_line = 0
    /\ ota_context /= NULL

\* C8: cy_ecm_init and cy_ecm_ethif_init are each called at most once; if
\* either fails the process halts, the call is not retried and
\* cy_ecm_connect is never called.
C8_LinkInitFailureIsFatal ==
    /\ Count("cy_ecm_init") <= 1
    /\ Count("cy_ecm_ethif_init") <= 1
    /\ \A i \in 1..Len(calls) :
          (calls[i][1] \in { "cy_ecm_init", "cy_ecm_ethif_init" }
             /\ ~calls[i][2]) =>
            /\ i = Len(calls)
            /\ pc = "halted"
            /\ halt_line = IF calls[i][1] = "cy_ecm_init" THEN 250 ELSE 259
            /\ Count("cy_ecm_connect") = 0
            /\ ec_ret = NULL

\* C8 witness: cy_ecm_init succeeded, cy_ecm_ethif_init failed, halted
C8_Witness ==
    /\ pc = "halted"
    /\ halt_line = 259
    /\ Count("cy_ecm_init") = 1
    /\ calls[Len(calls)] = << "cy_ecm_ethif_init", FALSE >>

\* how often the printf of the given source line occurs in the trace
PrintCount(tr, line) ==
    Len(SelectSeq(tr, LAMBDA o : o.op = "printf" /\ o.line = line))

\* C9: a storage-write state change never alters control flow: for every
\* percentage, bytes_written and total_size (percentage outside 0..100 and
\* bytes_written above total_size included) the callback prints the
\* progress line once and returns CONTINUE.
C9_StorageWriteContinues ==
    (CbHasRecord /\ IsStateChange(cb_data[1], "CY_OTA_STATE_STORAGE_WRITE")) =>
        /\ cb_status = "returned"
        /\ cb_result = CY_OTA_CB_RSLT_OTA_CONTINUE
        /\ PrintCount(cb_trace, 446) = 1
        /\ PrintOnly(cb_trace)
        /\ Len(cb_trace) = 6

\* C9 witness: a progress update with percentage 101 and more bytes written
\* than the total size returned CONTINUE
C9_Witness ==
    /\ cb_status = "returned"
    /\ cb_data /= NULL
    /\ IsStateChange(cb_data[1], "CY_OTA_STATE_STORAGE_WRITE")
    /\ cb_data[1].percentage > 100
    /\ cb_data[1].bytes_written > cb_data[1].total_size
    /\ cb_result = CY_OTA_CB_RSLT_OTA_CONTINUE

\* C10 as stated: on a job-connect state change the connection-target line
\* (server, port, file; line 363) is logged only when validation passes;
\* when the host is absent, the port is zero or the file path is empty the
\* callback requests STOP and host and file are not formatted as strings.
C10_TargetLoggedOnlyWhenValid ==
    (CbHasRecord /\ IsStateChange(cb_data[1], "CY_OTA_STATE_JOB_CONNECT")) =>
        IF BadJobConnect(cb_data[1])
          THEN /\ cb_result = CY_OTA_CB_RSLT_OTA_STOP
               /\ PrintCount(cb_trace, 363) = 0
          ELSE /\ cb_result = CY_OTA_CB_RSLT_OTA_CONTINUE
               /\ PrintCount(cb_trace, 363) = 1

\* the number of cy_ecm_connect calls so far that returned an error
FailedAttempts ==
    Len(SelectSeq(calls, LAMBDA c : c[1] = "cy_ecm_connect" /\ ~c[2]))

\* C11 as stated: at most 10 connect calls, and a 500 ms delay only between
\* two consecutive attempts, never after a successful attempt and never
\* after the final attempt: once ethernet_connect has returned, there is one
\* delay fewer than there were attempts; the total never exceeds 5000 ms.
C11_DelayOnlyBetweenAttempts ==
    /\ Len(ConnectCalls) <= MAX_CONNECTION_RETRIES
    /\ delay_ms <= MAX_CONNECTION_RETRIES * ETHERNET_CONN_RETRY_DELAY_MS
    /\ ec_ret /= NULL =>
          delay_ms = ETHERNET_CONN_RETRY_DELAY_MS * (Len(ConnectCalls) - 1)

\* C11 as amended: at most 10 connect calls, and a 500 ms delay after every
\* failed attempt, the tenth and final one included, and never after a
\* successful attempt; the total never exceeds 10 x 500 ms = 5000 ms.
C11_DelayAfterEveryFailure ==
    /\ Len(ConnectCalls) <= MAX_CONNECTION_RETRIES
    /\ delay_ms <= MAX_CONNECTION_RETRIES * ETHERNET_CONN_RETRY_DELAY_MS
    /\ delay_ms = ETHERNET_CONN_RETRY_DELAY_MS *
                    (FailedAttempts - (IF pc = "delay" THEN 1 ELSE 0))
    /\ pc = "delay" => (Len(ConnectCalls) >= 1
                          /\ ~ConnectCalls[Len(ConnectCalls)][2])

\* C11 witness: ten failed attempts, ten delays, the function has returned
C11_Witness ==
    /\ AllAttemptsFailed
    /\ ec_ret /= NULL
    /\ delay_ms = MAX_CONNECTION_RETRIES * ETHERNET_CONN_RETRY_DELAY_MS

\* C12: when link bring-up exhausts all 10 attempts, ota_task treats the
\* returned failure as fatal: the process halts (line 183), and neither
\* cy_awsport_network_init nor cy_ota_agent_start is ever invoked, so the
\* agent is never started without an established link.
C12_ExhaustionIsFatal ==
    /\ [](AllAttemptsFailed =>
            /\ Count("cy_awsport_network_init") = 0
            /\ Count("cy_ota_agent_start") = 0
            /\ ~agent_active
            /\ ota_context = NULL
            /\ ec_ret /= NULL => pc \in { "ec_returned", "halted" }
            /\ pc = "halted" => halt_line = 183)
    /\ [](agent_active =>
            \E i \in 1..Len(ConnectCalls) : ConnectCalls[i][2])
    /\ (AllAttemptsFailed ~> pc = "halted")

\* C12 witness: ten failed attempts, the process halted at line 183
C12_Witness ==
    /\ AllAttemptsFailed
    /\ pc = "halted"
    /\ halt_line = 183
    /\ Count("cy_awsport_network_init") = 0

\* the steps that precede the agent start all returned success
SetupBeforeAgentOk ==
    \A k \in 1..(Len(StepOrder) - 1) :
        \E i \in 1..Len(calls) : calls[i] = << StepOrder[k], TRUE >>

\* C13: ota_callback is invoked by the agent only from the point at which
\* cy_ota_agent_start has been called; no invocation precedes the successful
\* completion of storage init, image validation, link bring-up and
\* secure-sockets init.
C13_CallbackOnlyAfterAgentStart ==
    /\ [](CbInvoked =>
            /\ agent_active
            /\ pc \in { "agent_start_ret", "suspend", "suspended", "halted" }
            /\ pc = "halted" => halt_line = 197
            /\ SetupBeforeAgentOk)
    /\ [](agent_active => SetupBeforeAgentOk)
    /\ [][cbVars' /= cbVars => (agent_active /\ SetupBeforeAgentOk)]_vars

\* C13 witness: the callback ran while cy_ota_agent_start had not returned
C13_Witness ==
    /\ cb_status = "returned"
    /\ pc = "agent_start_ret"
    /\ Count("cy_ota_agent_start") = 0

\* C14: the bring-up task and the callback share no mutable state: once
\* cy_ota_agent_start has been called no step writes ota_network_params,
\* ota_agent_params or ota_interfaces; a task step leaves the callback's
\* data alone and a callback leaves the task's data alone; and a callback
\* given the same record as the previous one yields the same result,
\* whatever the task did in between.
C14_NoSharedMutableState ==
    /\ [][agent_active => cfgVars' = cfgVars]_vars
    /\ [](cfgVars = << NetworkParamsInit, AgentParamsInit, InterfacesInit >>)
    /\ [][cbVars' /= cbVars =>
            UNCHANGED << pc, taskVars, calls, connHist, halt_line,
                         ota_context, agent_active >>]_vars
    /\ [][pc' /= pc => cbVars' = cbVars]_vars
    /\ [][(CbInvoked /\ cb_data' = cb_data) =>
            (cb_result' = cb_result /\ cb_trace' = cb_trace)]_vars

\* C14 witness: the callback ran before and after the task parked itself
\* and the latest invocation, on a job-connect record, came after
C14_Witness ==
    /\ pc = "suspended"
    /\ cb_status = "returned"
    /\ cb_data /= NULL
    /\ IsStateChange(cb_data[1], "CY_OTA_STATE_JOB_CONNECT")
    /\ cb_result = CY_OTA_CB_RSLT_OTA_CONTINUE

\* C15: once cy_ota_agent_start has succeeded and stored the session handle
\* in ota_context, no later step changes, releases or reuses it: the handle
\* keeps its value and this file never stops the agent.
C15_HandleKeptForGood ==
    /\ [][ota_context /= NULL =>
            (ota_context' = ota_context /\ agent_active')]_vars
    /\ [](ota_context /= NULL =>
            /\ agent_active
            /\ ota_context = Ptr("ota_agent_handle")
            /\ Count("cy_ota_agent_start") = 1
            /\ calls[Len(calls)] = << "cy_ota_agent_start", TRUE >>)

\* C15 witness: the handle is held, the task is parked, the agent calls back
C15_Witness ==
    /\ ota_context /= NULL
    /\ pc = "suspended"
    /\ agent_active
    /\ cb_status = "returned"

\* the task has reached a final position
Terminal == pc \in { "halted", "suspended" }

\* C16: assuming every external call returns, every execution of ota_task
\* eventually reaches exactly one terminal state, process halt or permanent
\* suspension, for every combination of step outcomes and connect results;
\* the task function never returns and the retry loop is bounded.  (A print
\* that faults is an external call that does not return.)
C16_TaskTerminates ==
    /\ <>(Terminal \/ cb_status = "fault")
    /\ [][Terminal => pc' = pc]_vars
    /\ [](pc /= "returned")
    /\ [](conn_retries <= MAX_CONNECTION_RETRIES)

\* C16 witness: nine retries, link up, the agent start failed, halted
C16_Witness ==
    /\ pc = "halted"
    /\ halt_line = 197
    /\ FailedAttempts = MAX_CONNECTION_RETRIES - 1
    /\ delay_ms = (MAX_CONNECTION_RETRIES - 1) * ETHERNET_CONN_RETRY_DELAY_MS

====
